---- MODULE Spec2Model ----
(***************************************************************************)
(* Furniture matching and budget allocation engine of planche             *)
(* (match_furniture_for_room, get_max_dimension_for_slot,                  *)
(* query_supabase_for_matching, rank_candidates), as written in            *)
(* AI_Interior_Design_Full_Implementation_Plan.md, STAGE 3.                *)
(*                                                                         *)
(* Money is fixed point: one unit is a thousandth of a euro (a "mill"),    *)
(* so a float budget with more than two decimals is representable and      *)
(* round(x, 2) is a rounding to a multiple of 10 mills.  Fractions of the  *)
(* budget (slot_budget, per_item_budget, target_price) are exact rationals *)
(* <<numerator, denominator>> of mills.  Percentages are integers.         *)
(* Ratings and luxury scores are in hundredths.                            *)
(***************************************************************************)
EXTENDS Integers, Sequences, FiniteSets, TLC

VARIABLES room, budget_eur, tier, style, catalog,
          selected_products, remaining_budget, total_spent,
          pc, slot_idx, unit_idx, best, query_log, result, error, rank_call,
          dist_call, room_idx, weights, room_budgets,
          tasks, running, solo, phase,
          dim_call, dim_result,
          panel, submitted, analysis, matched_room,
          view, pending, design, sent

vars == <<room, budget_eur, tier, style, catalog,
          selected_products, remaining_budget, total_spent,
          pc, slot_idx, unit_idx, best, query_log, result, error, rank_call,
          dist_call, room_idx, weights, room_budgets,
          tasks, running, solo, phase,
          dim_call, dim_result,
          panel, submitted, analysis, matched_room,
          view, pending, design, sent>>

\* the arguments and locals of distribute_budget_across_rooms
distributor == <<dist_call, room_idx, weights, room_budgets>>

\* the concurrent room matches of one sketch: the suspended tasks' locals, the
\* task that runs, the results of the rooms matched alone, the phase
scheduler == <<tasks, running, solo, phase>>

\* the arguments and the return value of a direct call of
\* get_max_dimension_for_slot
dimension == <<dim_call, dim_result>>

\* the web client and the API behind it: ConfigPanel's state, the furnish
\* request it submits, the rooms analyze_room found in the sketch and the room
\* furnish_room hands to the matcher; the design page's state, the API calls
\* in flight, the design as the backend holds it, the number of calls sent
frontend == <<panel, submitted, analysis, matched_room, view, pending, design, sent>>

\* what a run is given; no step of match_furniture_for_room changes it
inputs == <<room, budget_eur, tier, style, catalog, rank_call, distributor, scheduler,
            dimension, frontend>>

-----------------------------------------------------------------------------
(* Null values *)

\* SQL NULL / Python None of a numeric column or argument
Null == -1

\* SQL NULL / Python None of a text column or argument
NullStr == "NULL"

\* the result before the function has returned
NoResult == [returned |-> FALSE]

\* the chosen product before any candidate has been ranked
NoProduct == [id |-> 0]

\* the arguments of a direct call of rank_candidates, when there is none
NoRankCall == [candidates |-> << >>, target_price |-> <<0, 1>>]

\* the arguments of distribute_budget_across_rooms, when it is not called
NoDistCall == [rooms |-> << >>, total_budget |-> 0]

\* distribute_budget_across_rooms is not called
DistributorIdle ==
  /\ dist_call = NoDistCall
  /\ room_idx = 1
  /\ weights = << >>
  /\ room_budgets = << >>

\* one call of match_furniture_for_room, no concurrent tasks
SchedulerIdle ==
  /\ tasks = << >>
  /\ running = 0
  /\ solo = << >>
  /\ phase = "single"

\* the arguments of a direct call of get_max_dimension_for_slot, when there
\* is none
NoDimCall == [slot |-> NullStr]

\* get_max_dimension_for_slot is not called directly
DimensionIdle ==
  /\ dim_call = NoDimCall
  /\ dim_result = Null

\* no page of the web client is mounted and the API serves no request
FrontendIdle ==
  /\ panel = [mounted |-> FALSE]
  /\ submitted = [sent |-> FALSE]
  /\ analysis = << >>
  /\ matched_room = [matched |-> FALSE]
  /\ view = [mounted |-> FALSE]
  /\ pending = {}
  /\ design = [stored |-> FALSE]
  /\ sent = 0

-----------------------------------------------------------------------------
(* Bounds of the model *)

\* largest number of products in a catalog snapshot
MaxCatalogSize == 2

\* largest number of rooms in one sketch
MaxRooms == 3

-----------------------------------------------------------------------------
(* Static configuration *)

Tiers == {"budget", "standard", "premium", "luxury"}

BUDGET_TIERS ==
  [budget   |-> [preferred_sources |-> {"jysk.bg", "ikea.bg", "emag.bg"},
                 max_single_item_pct |-> 35],
   standard |-> [preferred_sources |-> {"videnov.bg", "ikea.bg", "aiko-bg.com"},
                 max_single_item_pct |-> 30],
   premium  |-> [preferred_sources |-> {"wayfair.co.uk", "ikea.com", "videnov.bg"},
                 max_single_item_pct |-> 25],
   luxury   |-> [preferred_sources |-> {"wayfair.co.uk"},
                 max_single_item_pct |-> 25]]

\* room type -> slot category -> (min, max) percent of the budget
ROOM_BUDGET_ALLOCATION ==
  [r \in {"living room", "bedroom", "kitchen", "dining room", "office", "kids room"} |->
     CASE r = "living room" ->
            [seating |-> <<30, 40>>, tables |-> <<8, 15>>, storage |-> <<10, 20>>,
             lighting |-> <<5, 10>>, rugs |-> <<5, 10>>, decor |-> <<5, 10>>]
       [] r = "bedroom" ->
            [bed |-> <<35, 45>>, storage |-> <<20, 30>>, nightstands |-> <<8, 12>>,
             lighting |-> <<5, 10>>, rugs |-> <<3, 8>>, decor |-> <<3, 8>>]
       [] r = "kitchen" ->
            [dining_table |-> <<25, 35>>, chairs |-> <<20, 30>>, storage |-> <<15, 25>>,
             lighting |-> <<5, 10>>, accessories |-> <<5, 10>>]
       [] r = "dining room" ->
            [dining_table |-> <<30, 40>>, chairs |-> <<25, 35>>, storage |-> <<10, 20>>,
             lighting |-> <<5, 10>>, decor |-> <<5, 10>>]
       [] r = "office" ->
            [desk |-> <<30, 40>>, chair |-> <<20, 30>>, storage |-> <<15, 25>>,
             lighting |-> <<5, 10>>, accessories |-> <<5, 10>>]
       [] r = "kids room" ->
            [bed |-> <<30, 40>>, desk |-> <<15, 20>>, storage |-> <<20, 30>>,
             lighting |-> <<5, 10>>, decor |-> <<5, 10>>]]

\* a quantity is a fixed integer <<n>> or a range <<min, max>>
ROOM_FURNITURE_REQUIREMENTS ==
  [r \in {"living room", "bedroom", "kitchen", "office"} |->
     CASE r = "living room" ->
            [required |-> <<
               [slot |-> "sofa", categories |-> {"sofa", "corner sofa", "sofa bed"}, quantity |-> <<1>>],
               [slot |-> "coffee_table", categories |-> {"coffee table", "table"}, quantity |-> <<1>>] >>,
             optional |-> <<
               [slot |-> "tv_unit", categories |-> {"TV stand", "wall unit", "shelving"}, quantity |-> <<1>>],
               [slot |-> "armchair", categories |-> {"armchair", "chair"}, quantity |-> <<0, 2>>],
               [slot |-> "bookcase", categories |-> {"bookcase", "shelf unit", "shelving"}, quantity |-> <<0, 1>>],
               [slot |-> "floor_lamp", categories |-> {"lamp", "floor lamp"}, quantity |-> <<0, 2>>],
               [slot |-> "rug", categories |-> {"rug", "carpet"}, quantity |-> <<0, 1>>],
               [slot |-> "side_table", categories |-> {"side table", "table"}, quantity |-> <<0, 2>>] >>]
       [] r = "bedroom" ->
            [required |-> <<
               [slot |-> "bed", categories |-> {"bed", "double bed"}, quantity |-> <<1>>],
               [slot |-> "wardrobe", categories |-> {"wardrobe", "cabinet"}, quantity |-> <<1>>] >>,
             optional |-> <<
               [slot |-> "nightstand", categories |-> {"nightstand", "bedside table"}, quantity |-> <<0, 2>>],
               [slot |-> "dresser", categories |-> {"dresser", "chest of drawers"}, quantity |-> <<0, 1>>],
               [slot |-> "mirror", categories |-> {"mirror"}, quantity |-> <<0, 1>>],
               [slot |-> "lamp", categories |-> {"lamp", "table lamp"}, quantity |-> <<0, 2>>],
               [slot |-> "rug", categories |-> {"rug"}, quantity |-> <<0, 1>>] >>]
       [] r = "kitchen" ->
            [required |-> <<
               [slot |-> "dining_table", categories |-> {"dining table", "kitchen table", "table"}, quantity |-> <<1>>],
               [slot |-> "chairs", categories |-> {"dining chair", "chair"}, quantity |-> <<2, 6>>] >>,
             optional |-> <<
               [slot |-> "storage", categories |-> {"cabinet", "shelf unit"}, quantity |-> <<0, 1>>] >>]
       [] r = "office" ->
            [required |-> <<
               [slot |-> "desk", categories |-> {"desk", "office desk"}, quantity |-> <<1>>],
               [slot |-> "chair", categories |-> {"office chair", "chair"}, quantity |-> <<1>>] >>,
             optional |-> <<
               [slot |-> "bookcase", categories |-> {"bookcase", "shelf unit"}, quantity |-> <<0, 2>>],
               [slot |-> "lamp", categories |-> {"desk lamp", "lamp"}, quantity |-> <<0, 1>>] >>]]

\* slot_name.split("_")[0] for the slot names of the tables
SplitFirst(slot_name) ==
  CASE slot_name = "coffee_table" -> "coffee"
    [] slot_name = "dining_table" -> "dining"
    [] slot_name = "tv_unit"      -> "tv"
    [] slot_name = "floor_lamp"   -> "floor"
    [] slot_name = "side_table"   -> "side"
    [] OTHER -> slot_name

\* dict.get(key, default) on a table modelled as a record
DictGet(dict, key, default) ==
  IF key \in DOMAIN dict THEN dict[key] ELSE default

\* the empty dict {}
EmptyDict == [k \in {} |-> <<0, 0>>]

\* ROOM_BUDGET_ALLOCATION.get(room_type, {})
Allocations(room_type) == DictGet(ROOM_BUDGET_ALLOCATION, room_type, EmptyDict)

\* mutant: the required slots are walked in reverse table order
RequiredSlots_Reversed(room_type) ==
  IF room_type \in DOMAIN ROOM_FURNITURE_REQUIREMENTS
    THEN LET req == ROOM_FURNITURE_REQUIREMENTS[room_type].required
         IN [k \in 1..Len(req) |-> req[Len(req) + 1 - k]]
    ELSE << >>

\* ROOM_FURNITURE_REQUIREMENTS.get(room_type, {}).get("required", [])
RequiredSlots(room_type) ==
  IF room_type \in DOMAIN ROOM_FURNITURE_REQUIREMENTS
    THEN ROOM_FURNITURE_REQUIREMENTS[room_type].required ELSE << >>

\* ROOM_FURNITURE_REQUIREMENTS.get(room_type, {}).get("optional", [])
OptionalSlots(room_type) ==
  IF room_type \in DOMAIN ROOM_FURNITURE_REQUIREMENTS
    THEN ROOM_FURNITURE_REQUIREMENTS[room_type].optional ELSE << >>

\* mutant: the minimum of a quantity range is used
Quantity_RangeMin(slot) == slot.quantity[1]

\* slot["quantity"] if isinstance(slot["quantity"], int) else slot["quantity"][1]
Quantity(slot) ==
  IF Len(slot.quantity) = 1 THEN slot.quantity[1] ELSE slot.quantity[2]

\* alloc of a required slot: first token of the name, then the name, then the default
RequiredAlloc(room_type, slot_name) ==
  DictGet(Allocations(room_type), SplitFirst(slot_name),
          DictGet(Allocations(room_type), slot_name, <<15, 25>>))

\* mutant: an optional slot falls back to the default of the required slots
OptionalAlloc_RequiredDefault(room_type, slot_name) ==
  DictGet(Allocations(room_type), slot_name, <<15, 25>>)

\* alloc of an optional slot
OptionalAlloc(room_type, slot_name) ==
  DictGet(Allocations(room_type), slot_name, <<3, 8>>)

-----------------------------------------------------------------------------
(* get_max_dimension_for_slot *)

Min(a, b) == IF a <= b THEN a ELSE b

\* index of the first usable wall whose suitable_for contains the slot, 0 if none
FirstSuitableWall(slot, walls) ==
  IF \E k \in 1..Len(walls) : slot \in walls[k].suitable_for
    THEN CHOOSE k \in 1..Len(walls) :
           /\ slot \in walls[k].suitable_for
           /\ \A j \in 1..(k - 1) : slot \notin walls[j].suitable_for
    ELSE 0

\* the <<length, percent>> pairs, for lengths that are multiples of 10 cm up
\* to 1000, whose product in binary floating point lies just below the exact
\* integer value (360 * 0.7 is 251.99999999999997): int() then truncates to one
\* less than the exact product
FloatProductBelow ==
  { <<90, 70>>, <<170, 70>>, <<180, 35>>, <<180, 70>>, <<330, 70>>, <<340, 35>>,
    <<340, 70>>, <<350, 70>>, <<360, 35>>, <<360, 70>>, <<650, 70>>, <<660, 35>>,
    <<660, 70>>, <<670, 70>>, <<680, 35>>, <<680, 70>>, <<690, 70>>, <<700, 35>>,
    <<700, 70>>, <<710, 70>>, <<720, 35>>, <<720, 70>>, <<730, 70>> }

\* int(length * 0.pct) as the float product gives it
IntOfProduct(length, pct) ==
  IF <<length, pct>> \in FloatProductBelow
    THEN ((length * pct) \div 100) - 1
    ELSE (length * pct) \div 100

\* the fallback proportional limits, already truncated by int()
FallbackLimit(slot, room_width, room_depth) ==
  CASE slot = "sofa"         -> IntOfProduct(room_width, 75)
    [] slot = "coffee_table" -> IntOfProduct(room_width, 35)
    [] slot = "bed"          -> Min(IntOfProduct(room_width, 70), 220)
    [] slot = "wardrobe"     -> IntOfProduct(room_width, 60)
    [] slot = "desk"         -> Min(IntOfProduct(room_width, 50), 180)
    [] slot = "dining_table" -> Min(IntOfProduct(room_width, 60), IntOfProduct(room_depth, 50))
    [] slot = "tv_unit"      -> IntOfProduct(room_width, 50)
    [] slot = "bookcase"     -> IntOfProduct(room_width, 40)
    [] slot = "nightstand"   -> 60
    [] slot = "dresser"      -> IntOfProduct(room_width, 40)
    [] slot = "lamp"         -> 50
    [] slot = "rug"          -> IntOfProduct(room_width, 70)
    [] slot = "chair"        -> 80
    [] slot = "armchair"     -> 100
    [] slot = "side_table"   -> 60
    [] slot = "mirror"       -> IntOfProduct(room_width, 30)
    [] OTHER                 -> IntOfProduct(room_width, 50)

get_max_dimension_for_slot(slot, r) ==
  LET k == FirstSuitableWall(slot, r.usable_walls) IN
    IF k # 0
      THEN IF r.usable_walls[k].free_length_cm # Null
             THEN r.usable_walls[k].free_length_cm
             ELSE IntOfProduct(r.estimated_width_cm, 60)
      ELSE FallbackLimit(slot, r.estimated_width_cm, r.estimated_depth_cm)

-----------------------------------------------------------------------------
(* query_supabase_for_matching over a catalog snapshot *)

\* None or an empty/zero value: what a Python "if x:" skips
Falsy(x) == x = Null \/ x = 0

\* the arguments of one call; an argument left out has its default
QueryArgs(categories, room_type, st, min_price, max_price, max_width, preferred_sources, require_usable_image, require_proportions, limit) ==
  [categories |-> categories, room |-> room_type, style |-> st,
   min_price |-> min_price, max_price |-> max_price, max_width |-> max_width,
   preferred_sources |-> preferred_sources,
   require_usable_image |-> require_usable_image,
   require_proportions |-> require_proportions, limit |-> limit]

\* mutant: the min_price filter is not applied
PriceGte_NotApplied(p, bound) == p.price # Null

\* price >= min_price, min_price a rational <<n, d>>; NULL prices never match
PriceGte(p, bound) == p.price # Null /\ p.price * bound[2] >= bound[1]

\* mutant: the max_price filter is not applied
PriceLte_NotApplied(p, bound) == p.price # Null

\* price <= max_price, max_price a rational <<n, d>>
PriceLte(p, bound) == p.price # Null /\ p.price * bound[2] <= bound[1]

\* width_cm <= max_width OR width_cm IS NULL
WidthFits(p, max_width) == p.width_cm = Null \/ p.width_cm <= max_width

\* the WHERE clause the call builds
Matches(p, q) ==
  /\ (q.categories # {} => (p.category \in q.categories \/ p.subcategory \in q.categories))
  /\ (q.room # NullStr => q.room \in p.room_type)
  /\ (q.style # NullStr => (p.style = {NullStr} \/ q.style \in p.style))
  /\ (q.min_price # <<>> => PriceGte(p, q.min_price))
  /\ (q.max_price # <<>> => PriceLte(p, q.max_price))
  /\ (~Falsy(q.max_width) => WidthFits(p, q.max_width))
  /\ (q.require_usable_image => (p.image_usable /\ p.r2_main_image_key # NullStr))
  /\ (q.require_proportions => p.proportion_w_h # Null)
  /\ p.in_stock
  /\ (q.preferred_sources # {} => p.source_domain \in q.preferred_sources)

\* ORDER BY rating DESC NULLS LAST; rows of equal rating come in id order
ComesBefore(a, b) ==
  \/ a.rating # Null /\ b.rating = Null
  \/ a.rating # Null /\ b.rating # Null /\ a.rating > b.rating
  \/ a.rating = b.rating /\ a.id < b.id

RECURSIVE OrderByRating(_)
OrderByRating(S) ==
  IF S = {} THEN << >>
  ELSE LET first == CHOOSE a \in S : \A b \in S \ {a} : ComesBefore(a, b)
       IN <<first>> \o OrderByRating(S \ {first})

\* LIMIT n
Limit(rows, n) == SubSeq(rows, 1, Min(n, Len(rows)))

query_supabase_for_matching(cat, q) ==
  Limit(OrderByRating({p \in cat : Matches(p, q)}), q.limit)

-----------------------------------------------------------------------------
(* rank_candidates *)

\* the score of one candidate; target_price is a rational <<n, d>>
Score(c, target_price, t) ==
  LET hasRatio == ~Falsy(c.price) /\ target_price[1] # 0
      \* price_ratio = c.price / target_price, compared by cross multiplication
      ratioIn(lo10, hi10) == /\ lo10 * target_price[1] <= 10 * c.price * target_price[2]
                             /\ 10 * c.price * target_price[2] <= hi10 * target_price[1]
      ratioAbove(lo10) == 10 * c.price * target_price[2] > lo10 * target_price[1]
      proximity == IF ~hasRatio THEN 0
                   ELSE IF ratioIn(6, 11) THEN 30
                   ELSE IF ratioIn(4, 13) THEN 15 ELSE 0
      luxPrice == IF hasRatio /\ t = "luxury" /\ ratioAbove(8) THEN 10 ELSE 0
      image == IF c.r2_main_image_key # NullStr /\ c.r2_main_image_key # "" THEN 25 ELSE 0
      dims == IF c.dimensions_source \in {"website_verified", "ai_estimated"} THEN 20
              ELSE IF ~Falsy(c.width_cm) THEN 10 ELSE 0
      descr == IF c.visual_description # NullStr /\ c.visual_description # "" THEN 15 ELSE 0
      prop == IF ~Falsy(c.proportion_w_h) THEN 15 ELSE 0
      lux == IF Falsy(c.luxury_score) THEN 0
             ELSE IF t = "luxury" /\ c.luxury_score > 70 THEN 15
             ELSE IF t = "budget" /\ c.luxury_score < 30 THEN 10
             ELSE IF t \in {"standard", "premium"} /\ 30 <= c.luxury_score /\ c.luxury_score <= 70
                    THEN 10 ELSE 0
      rate == IF ~Falsy(c.rating) /\ c.rating >= 400 THEN 10 ELSE 0
  IN proximity + luxPrice + image + dims + descr + prop + lux + rate

\* mutant: an unstable sort, an entry goes before the entries of equal score
InsertSorted_Unstable(sorted, e) ==
  LET after == {k \in 1..Len(sorted) : sorted[k][1] > e[1]}
      n == Cardinality(after)
  IN SubSeq(sorted, 1, n) \o <<e>> \o SubSeq(sorted, n + 1, Len(sorted))

\* one step of scored.sort(key=lambda x: -x[0]): the sort is stable, so an entry
\* goes after every entry already placed whose score is at least its own
InsertSorted(sorted, e) ==
  LET after == {k \in 1..Len(sorted) : sorted[k][1] >= e[1]}
      n == Cardinality(after)
  IN SubSeq(sorted, 1, n) \o <<e>> \o SubSeq(sorted, n + 1, Len(sorted))

RECURSIVE SortByScoreDesc(_)
SortByScoreDesc(scored) ==
  IF scored = << >> THEN << >>
  ELSE InsertSorted(SortByScoreDesc(SubSeq(scored, 1, Len(scored) - 1)),
                    scored[Len(scored)])

\* candidates is never empty at the two call sites
rank_candidates(candidates, target_price, t) ==
  LET scored == [k \in 1..Len(candidates) |-> <<Score(candidates[k], target_price, t), candidates[k]>>]
  IN SortByScoreDesc(scored)[1][2]

-----------------------------------------------------------------------------
(* Inputs: rooms, budgets, catalog snapshots *)

\* a products row; room_type and style hold the words their text contains,
\* {NullStr} is a NULL style column
Product(id, category, price, width_cm, source_domain, rating, dimensions_source, visual_description, luxury_score, proportion_w_h, st) ==
  [id |-> id, category |-> category, subcategory |-> NullStr,
   room_type |-> {"living room", "bedroom", "kitchen", "office", "dining room", "bathroom"},
   style |-> st, price |-> price, width_cm |-> width_cm,
   image_usable |-> TRUE, r2_main_image_key |-> "products/main.jpg",
   proportion_w_h |-> proportion_w_h, in_stock |-> TRUE,
   source_domain |-> source_domain, rating |-> rating,
   dimensions_source |-> dimensions_source,
   visual_description |-> visual_description, luxury_score |-> luxury_score]

Pool ==
  { Product(1, "sofa",        100000, 200,  "ikea.bg",       450,  NullStr,            NullStr,      50,   133, {"modern"}),
    Product(2, "corner sofa",  90000, 260,  "ikea.bg",       300,  "website_verified", "grey sofa",  50,   150, {NullStr}),
    Product(3, "sofa bed",     90000, 190,  "ikea.bg",       300,  "ai_estimated",     "blue sofa",  50,   150, {NullStr}),
    Product(4, "table",        30000, Null, "ikea.bg",       Null, NullStr,            NullStr,      Null, 200, {NullStr}),
    Product(5, "chair",        20000, 45,   "ikea.bg",       420,  "website_verified", NullStr,      20,   50,  {NullStr}),
    Product(6, "TV stand",     15000, 120,  "wayfair.co.uk", 480,  NullStr,            "oak stand",  90,   Null, {"classic"}),
    Product(7, "sofa",        110000, 180,  "wayfair.co.uk", 500,  "website_verified", "velvet sofa", 90,  140, {NullStr}),
    Product(8, "bed",         200000, 160,  "videnov.bg",    Null, "ai_estimated",     "oak bed",    60,   80,  {"modern", "classic"}),
    Product(9, "dining table", 100000, 140, "ikea.bg",      410,  "website_verified", "oak table",  40,   180, {NullStr}),
    [Product(10, "coffee table", 40000, 90, "ikea.bg",      430,  NullStr,            NullStr,      0,    150, {NullStr})
       EXCEPT !.r2_main_image_key = ""] }

Catalogs == {S \in SUBSET Pool : Cardinality(S) <= MaxCatalogSize}

\* budgets in mills: zero, a budget with a third decimal, a round budget
Budgets == {0, 100004, 500000}

Styles == {NullStr, "modern"}

RoomTypes == {"living room", "bedroom", "kitchen", "office", "dining room", "bathroom"}

\* usable_walls lists; a Null free_length_cm is a wall without that key
WallChoices ==
  { << >>,
    << [wall |-> "north", free_length_cm |-> 0, suitable_for |-> {"sofa", "bed"}] >>,
    << [wall |-> "north", free_length_cm |-> 150, suitable_for |-> {"sofa"}],
       [wall |-> "east", free_length_cm |-> 300, suitable_for |-> {"sofa", "dining_table"}],
       [wall |-> "west", free_length_cm |-> Null, suitable_for |-> {"coffee_table", "desk"}] >> }

Room(type, width, depth, walls) ==
  [type |-> type, estimated_width_cm |-> width, estimated_depth_cm |-> depth,
   usable_walls |-> walls]

\* rooms of 400 x 300 cm with each wall list, and degenerate rooms of 0 x 0 cm
Rooms ==
  {Room(t, 400, 300, w) : t \in DOMAIN ROOM_FURNITURE_REQUIREMENTS, w \in WallChoices}
    \cup {Room(t, 400, 300, << >>) : t \in RoomTypes}
    \cup {Room(t, 0, 0, << >>) : t \in DOMAIN ROOM_FURNITURE_REQUIREMENTS}

-----------------------------------------------------------------------------
(* match_furniture_for_room *)

\* round(x, 2) of an amount in mills; an amount ending in 5 mills is rounded to
\* the even cent (on floats the binary value decides; Budgets has no such amount)
Round2(x) ==
  LET q == x \div 10
      r == x % 10
  IN IF r < 5 THEN 10 * q
     ELSE IF r > 5 THEN 10 * (q + 1)
     ELSE IF q % 2 = 0 THEN 10 * q ELSE 10 * (q + 1)

\* round((total_spent / budget_eur) * 100, 1), in tenths of a percent; budget > 0
UtilizationPct(spent, budget) ==
  LET n == spent * 1000
      q == n \div budget
      r2 == 2 * (n % budget)
  IN IF r2 < budget THEN q
     ELSE IF r2 > budget THEN q + 1
     ELSE IF q % 2 = 0 THEN q ELSE q + 1

\* p["product"].get("r2_main_image_key") is truthy
HasImageKey(item) ==
  item.product.r2_main_image_key # NullStr /\ item.product.r2_main_image_key # ""

\* mutant: the list comprehension has no condition
FilterItems_Unfiltered(items) == items

\* [f(p) for p in items if cond(p)], order kept
RECURSIVE FilterItems(_)
FilterItems(items) ==
  IF items = << >> THEN << >>
  ELSE LET rest == FilterItems(Tail(items))
       IN IF HasImageKey(Head(items)) THEN <<Head(items)>> \o rest ELSE rest

RenderEntry(item) ==
  [slot |-> item.slot, r2_key |-> item.product.r2_main_image_key,
   visual_description |-> item.product.visual_description,
   width_cm |-> item.product.width_cm,
   proportion_w_h |-> item.product.proportion_w_h]

BuyLink(item) ==
  [name |-> item.product.id, price |-> item.product.price,
   source |-> item.product.source_domain,
   image_key |-> item.product.r2_main_image_key]

\* the dict the function returns
BuildResult ==
  [returned |-> TRUE, room |-> room, tier |-> tier, style |-> style,
   budget_total |-> budget_eur,
   budget_spent |-> Round2(total_spent),
   budget_remaining |-> Round2(remaining_budget),
   budget_utilization_pct |-> UtilizationPct(total_spent, budget_eur),
   products |-> selected_products,
   product_count |-> Len(selected_products),
   product_images_for_render |->
     [k \in 1..Len(FilterItems(selected_products)) |-> RenderEntry(FilterItems(selected_products)[k])],
   buy_links |-> [k \in 1..Len(selected_products) |-> BuyLink(selected_products[k])]]

Item(slot_name, product) == [slot |-> slot_name, product |-> product, quantity |-> 1]

\* mutant: the lower bound of the range is used
RequiredSlotBudget_LowerBound(remaining, alloc) == <<remaining * alloc[1], 100>>

\* slot_budget of a required slot: remaining_budget * alloc[1]
RequiredSlotBudget(remaining, alloc) == <<remaining * alloc[2], 100>>

\* mutant: the slot budget is not divided by the quantity
PerItemBudget_NotDivided(slot_budget, quantity) == slot_budget

\* per_item_budget = slot_budget / quantity
PerItemBudget(slot_budget, quantity) == <<slot_budget[1], slot_budget[2] * quantity>>

\* x * 0.3 and x * 0.7 of a rational
TimesTenths(x, tenths) == <<x[1] * tenths, x[2] * 10>>

\* mutant: the cap of 0.4 of the remaining budget is dropped
OptionalSlotBudget_NoCap(remaining, budget, alloc) == <<budget * alloc[2], 100>>

\* slot_budget of an optional slot: min(remaining_budget * 0.4, budget_eur * alloc[1])
OptionalSlotBudget(remaining, budget, alloc) ==
  <<Min(remaining * 40, budget * alloc[2]), 100>>

\* slot_budget < 15 (euros)
MinSlotBudgetEur == 15

\* mutant: the floor is compared in the wrong unit (15 mills)
BelowFloor_WrongUnit(slot_budget) == slot_budget[1] < MinSlotBudgetEur * slot_budget[2]

\* if slot_budget < 15: continue
BelowFloor(slot_budget) == slot_budget[1] < MinSlotBudgetEur * 1000 * slot_budget[2]

RequiredQuery(slot, remaining) ==
  LET per_item == PerItemBudget(RequiredSlotBudget(remaining, RequiredAlloc(room.type, slot.slot)),
                                Quantity(slot))
  IN QueryArgs(slot.categories, room.type, style, TimesTenths(per_item, 3), per_item,
               get_max_dimension_for_slot(slot.slot, room),
               BUDGET_TIERS[tier].preferred_sources, TRUE, TRUE, 5)

\* mutant: an optional slot is queried like a required one
OptionalQuery_LikeRequired(slot, remaining) ==
  LET slot_budget == OptionalSlotBudget(remaining, budget_eur, OptionalAlloc(room.type, slot.slot))
  IN QueryArgs(slot.categories, room.type, style, TimesTenths(slot_budget, 3), slot_budget,
               get_max_dimension_for_slot(slot.slot, room),
               BUDGET_TIERS[tier].preferred_sources, TRUE, TRUE, 3)

OptionalQuery(slot, remaining) ==
  QueryArgs(slot.categories, NullStr, style, << >>,
            OptionalSlotBudget(remaining, budget_eur, OptionalAlloc(room.type, slot.slot)),
            get_max_dimension_for_slot(slot.slot, room),
            BUDGET_TIERS[tier].preferred_sources, TRUE, FALSE, 3)

LogEntry(kind, slot_name, args, candidates, target, winner) ==
  [kind |-> kind, slot |-> slot_name, args |-> args, candidates |-> candidates,
   target_price |-> target, winner |-> winner]

Init ==
  /\ room \in Rooms
  /\ budget_eur \in Budgets
  /\ tier \in Tiers
  /\ style \in Styles
  /\ catalog \in Catalogs
  /\ selected_products = << >>
  /\ remaining_budget = budget_eur
  /\ total_spent = 0
  /\ pc = "required"
  /\ slot_idx = 1
  /\ unit_idx = 0
  /\ best = NoProduct
  /\ query_log = << >>
  /\ result = NoResult
  /\ error = NullStr
  /\ rank_call = NoRankCall
  /\ DistributorIdle
  /\ SchedulerIdle
  /\ DimensionIdle
  /\ FrontendIdle

\* mutant: a required slot without candidates ends the required loop
RequiredSlotEmpty_Breaks ==
  /\ slot_idx' = 1
  /\ pc' = "optional"
  /\ UNCHANGED <<best, unit_idx, selected_products, remaining_budget, total_spent>>

\* a required slot whose query returned nothing: "if candidates:" is skipped
RequiredSlotEmpty ==
  /\ slot_idx' = slot_idx + 1
  /\ UNCHANGED <<best, unit_idx, pc, selected_products, remaining_budget, total_spent>>

\* one iteration of the required loop up to the ranking of the candidates
RequiredSlot ==
  /\ pc = "required"
  /\ slot_idx <= Len(RequiredSlots(room.type))
  /\ LET slot == RequiredSlots(room.type)[slot_idx]
         args == RequiredQuery(slot, remaining_budget)
         candidates == query_supabase_for_matching(catalog, args)
     IN IF candidates # << >>
          THEN /\ best' = rank_candidates(candidates, args.max_price, tier)
               /\ query_log' = Append(query_log,
                    LogEntry("required", slot.slot, args, candidates, args.max_price, best'))
               /\ unit_idx' = 0
               /\ pc' = "required_unit"
               /\ UNCHANGED <<slot_idx, selected_products, remaining_budget, total_spent>>
          ELSE /\ query_log' = Append(query_log,
                    LogEntry("required", slot.slot, args, candidates, args.max_price, NoProduct))
               /\ RequiredSlotEmpty
  /\ UNCHANGED <<inputs, result, error>>

\* one iteration of "for i in range(quantity)"
RequiredUnit ==
  /\ pc = "required_unit"
  /\ LET slot == RequiredSlots(room.type)[slot_idx] IN
       /\ selected_products' = Append(selected_products, Item(slot.slot, best))
       /\ total_spent' = total_spent + best.price
       /\ remaining_budget' = remaining_budget - best.price
       /\ IF unit_idx + 1 < Quantity(slot)
            THEN /\ unit_idx' = unit_idx + 1
                 /\ UNCHANGED <<pc, slot_idx>>
            ELSE /\ unit_idx' = 0
                 /\ pc' = "required"
                 /\ slot_idx' = slot_idx + 1
  /\ UNCHANGED <<inputs, best, query_log, result, error>>

\* the required loop is over
EnterOptional ==
  /\ pc = "required"
  /\ slot_idx > Len(RequiredSlots(room.type))
  /\ pc' = "optional"
  /\ slot_idx' = 1
  /\ UNCHANGED <<inputs, selected_products, remaining_budget, total_spent,
                 unit_idx, best, query_log, result, error>>

\* one iteration of the optional loop
OptionalSlot ==
  /\ pc = "optional"
  /\ slot_idx <= Len(OptionalSlots(room.type))
  /\ remaining_budget > 0
  /\ LET slot == OptionalSlots(room.type)[slot_idx]
         args == OptionalQuery(slot, remaining_budget)
         candidates == query_supabase_for_matching(catalog, args)
         target == TimesTenths(args.max_price, 7)
     IN IF BelowFloor(args.max_price)
          THEN UNCHANGED <<selected_products, remaining_budget, total_spent, best, query_log>>
          ELSE IF candidates # << >>
            THEN /\ best' = rank_candidates(candidates, target, tier)
                 /\ query_log' = Append(query_log,
                      LogEntry("optional", slot.slot, args, candidates, target, best'))
                 /\ selected_products' = Append(selected_products, Item(slot.slot, best'))
                 /\ total_spent' = total_spent + best'.price
                 /\ remaining_budget' = remaining_budget - best'.price
            ELSE /\ query_log' = Append(query_log,
                      LogEntry("optional", slot.slot, args, candidates, target, NoProduct))
                 /\ UNCHANGED <<selected_products, remaining_budget, total_spent, best>>
  /\ slot_idx' = slot_idx + 1
  /\ UNCHANGED <<inputs, pc, unit_idx, result, error>>

\* the optional loop is over, or "if remaining_budget <= 0: break"
EndOptional ==
  /\ pc = "optional"
  /\ (slot_idx > Len(OptionalSlots(room.type)) \/ remaining_budget <= 0)
  /\ pc' = "assemble"
  /\ UNCHANGED <<inputs, selected_products, remaining_budget, total_spent,
                 slot_idx, unit_idx, best, query_log, result, error>>

\* the return statement; total_spent / budget_eur raises on a zero budget
Assemble ==
  /\ pc = "assemble"
  /\ IF budget_eur = 0
       THEN /\ pc' = "raised"
            /\ error' = "ZeroDivisionError"
            /\ UNCHANGED result
       ELSE /\ pc' = "done"
            /\ result' = BuildResult
            /\ UNCHANGED error
  /\ UNCHANGED <<inputs, selected_products, remaining_budget, total_spent,
                 slot_idx, unit_idx, best, query_log>>

Next ==
  \/ RequiredSlot
  \/ RequiredUnit
  \/ EnterOptional
  \/ OptionalSlot
  \/ EndOptional
  \/ Assemble

Spec == Init /\ [][Next]_vars

TypeOK ==
  /\ pc \in {"required", "required_unit", "optional", "assemble", "done", "raised",
            "rank", "ranked", "weigh", "distributed", "measure", "measured",
            "configure", "generating", "matching", "result"}
  /\ slot_idx \in 1..7
  /\ unit_idx \in 0..5

-----------------------------------------------------------------------------
(* rank_candidates called on its own *)

\* candidate lists without repetition, in every order
CandidateLists ==
  {c \in UNION {[1..n -> Pool] : n \in 1..MaxCatalogSize} :
     \A i, j \in 1..Len(c) : i # j => c[i] # c[j]}

\* target prices in mills, zero included
TargetPrices == {0, 50000, 100000, 125000}

InitRank ==
  /\ rank_call \in {[candidates |-> c, target_price |-> <<t, 1>>] :
                       c \in CandidateLists, t \in TargetPrices}
  /\ tier \in Tiers
  /\ room = Room("living room", 400, 300, << >>)
  /\ budget_eur = 0
  /\ style = NullStr
  /\ catalog = {}
  /\ selected_products = << >>
  /\ remaining_budget = 0
  /\ total_spent = 0
  /\ pc = "rank"
  /\ slot_idx = 1
  /\ unit_idx = 0
  /\ best = NoProduct
  /\ query_log = << >>
  /\ result = NoResult
  /\ error = NullStr
  /\ DistributorIdle
  /\ SchedulerIdle
  /\ DimensionIdle
  /\ FrontendIdle

\* best = rank_candidates(candidates, target_price, tier)
RankCall ==
  /\ pc = "rank"
  /\ best' = rank_candidates(rank_call.candidates, rank_call.target_price, tier)
  /\ query_log' = <<LogEntry("rank", NullStr, NullStr, rank_call.candidates,
                             rank_call.target_price, best')>>
  /\ pc' = "ranked"
  /\ UNCHANGED <<inputs, selected_products, remaining_budget, total_spent,
                 slot_idx, unit_idx, result, error>>

NextRank == RankCall

SpecRank == InitRank /\ [][NextRank]_vars

-----------------------------------------------------------------------------
(* Properties *)

HasPlan(room_type) == room_type \in DOMAIN ROOM_FURNITURE_REQUIREMENTS

\* names of the plan's slots, required first, in table order
PlanSlotNames(room_type) ==
  IF HasPlan(room_type)
    THEN LET req == ROOM_FURNITURE_REQUIREMENTS[room_type].required
             opt == ROOM_FURNITURE_REQUIREMENTS[room_type].optional
         IN [k \in 1..(Len(req) + Len(opt)) |->
               IF k <= Len(req) THEN req[k].slot ELSE opt[k - Len(req)].slot]
    ELSE << >>

NumRequired(room_type) ==
  IF HasPlan(room_type) THEN Len(ROOM_FURNITURE_REQUIREMENTS[room_type].required) ELSE 0

\* position of a slot in the plan
PlanIndex(room_type, slot_name) ==
  CHOOSE k \in 1..Len(PlanSlotNames(room_type)) : PlanSlotNames(room_type)[k] = slot_name

\* C1: after every processed slot and in the returned result, budget_spent +
\* budget_remaining equals budget_total exactly.
C1_SpentPlusRemainingIsTotal ==
  /\ total_spent + remaining_budget = budget_eur
  /\ (pc = "done" => result.budget_spent + result.budget_remaining = result.budget_total)

\* C2: with catalog prices > 0 and the price filter honoured, an item is only
\* appended while remaining_budget > 0, for each unit of a required slot and for
\* optional slots, and what has been spent never exceeds the total budget.
C2_NeverOverspends ==
  [][Len(selected_products') > Len(selected_products)
       => (remaining_budget > 0 /\ total_spent' <= budget_eur)]_vars

\* C2 witness: a kitchen whose six chairs were all bought
C2_Witness ==
  /\ pc = "done"
  /\ Cardinality({k \in 1..Len(result.products) : result.products[k].slot = "chairs"}) = 6
  /\ result.budget_spent <= result.budget_total

\* C3: every selected item with a known width_cm is no wider than the max_width
\* get_max_dimension_for_slot computes for its slot, for every room layout.
C3_WidthWithinMax ==
  \A k \in 1..Len(selected_products) :
    selected_products[k].product.width_cm # Null =>
      selected_products[k].product.width_cm
        <= get_max_dimension_for_slot(selected_products[k].slot, room)

\* C4: every selected item's price is at most the max_price of the query issued
\* for its slot, and the product rank_candidates returned is one of that query's
\* candidates.
C4_PriceWithinQueriedMax ==
  /\ \A k \in 1..Len(query_log) :
       query_log[k].winner # NoProduct =>
         \E j \in 1..Len(query_log[k].candidates) : query_log[k].candidates[j] = query_log[k].winner
  /\ \A k \in 1..Len(selected_products) :
       \E j \in 1..Len(query_log) :
         /\ query_log[j].slot = selected_products[k].slot
         /\ query_log[j].winner = selected_products[k].product
         /\ selected_products[k].product.price * query_log[j].args.max_price[2]
              <= query_log[j].args.max_price[1]

\* C4 witness: a finished match with a required and an optional item
C4_Witness ==
  /\ pc = "done"
  /\ \E k \in 1..Len(query_log) : query_log[k].kind = "required" /\ query_log[k].winner # NoProduct
  /\ \E k \in 1..Len(query_log) : query_log[k].kind = "optional" /\ query_log[k].winner # NoProduct

\* C5: for a room type without a slot plan the function fails and returns no
\* MatchResult.
C5_UnknownRoomTypeIsFatal ==
  ~HasPlan(room.type) => (pc # "done" /\ result = NoResult)

\* result["unmet_required_slots"], empty when the result has no such field
UnmetRequiredSlots(res) ==
  IF "unmet_required_slots" \in DOMAIN res THEN res.unmet_required_slots ELSE {}

\* C6: every required slot for which no candidate was found is listed in
\* unmet_required_slots or present as an item whose product is null.
C6_UnmetSlotsAreReported ==
  pc = "done" =>
    \A k \in 1..Len(query_log) :
      (query_log[k].kind = "required" /\ query_log[k].candidates = << >>) =>
        \/ query_log[k].slot \in UnmetRequiredSlots(result)
        \/ \E j \in 1..Len(result.products) :
             /\ result.products[j].slot = query_log[k].slot
             /\ result.products[j].product = NoProduct

\* C7: for a room type with a slot plan, any tier, any budget_eur >= 0 and any
\* catalog, no error is raised.
C7_OnlyUnknownRoomTypeIsFatal ==
  HasPlan(room.type) => (pc # "raised" /\ error = NullStr)

\* C8: a slot whose query returns no candidates adds no item, leaves total_spent
\* and remaining_budget unchanged, and the match goes on to the next slot.
C8_EmptySlotChangesNothing ==
  [][(Len(query_log') > Len(query_log) /\ query_log'[Len(query_log')].candidates = << >>)
       => /\ selected_products' = selected_products
          /\ total_spent' = total_spent
          /\ remaining_budget' = remaining_budget
          /\ slot_idx' = slot_idx + 1
          /\ pc' = pc]_vars

\* C8 witness: a required and an optional slot came back empty and a later slot
\* was still filled
C8_Witness ==
  \E i, j, k \in 1..Len(query_log) :
    /\ i < k /\ j < k
    /\ query_log[i].kind = "required" /\ query_log[i].candidates = << >>
    /\ query_log[j].kind = "optional" /\ query_log[j].candidates = << >>
    /\ query_log[k].winner # NoProduct

\* C9: the catalog queries are issued in plan order, all required slots before
\* any optional slot, and the items appear in that order.
C9_PlanOrder ==
  /\ \A k \in 1..Len(query_log) :
       /\ query_log[k].kind = "required" <=> k <= NumRequired(room.type)
       /\ k <= NumRequired(room.type) => query_log[k].slot = PlanSlotNames(room.type)[k]
       /\ k > NumRequired(room.type) =>
            PlanIndex(room.type, query_log[k].slot) > NumRequired(room.type)
  /\ \A j, k \in 1..Len(query_log) :
       j < k => PlanIndex(room.type, query_log[j].slot) < PlanIndex(room.type, query_log[k].slot)
  /\ \A j, k \in 1..Len(selected_products) :
       j < k => PlanIndex(room.type, selected_products[j].slot)
                  <= PlanIndex(room.type, selected_products[k].slot)
  /\ (pc \in {"optional", "assemble", "done", "raised"}) =>
       Len(query_log) >= NumRequired(room.type)

\* C9 witness: both required slots and two optional slots were queried and a
\* required and an optional item are in the result
C9_Witness ==
  /\ pc = "done"
  /\ Len(query_log) >= 4
  /\ \E j, k \in 1..Len(result.products) :
       /\ PlanIndex(room.type, result.products[j].slot) <= NumRequired(room.type)
       /\ PlanIndex(room.type, result.products[k].slot) > NumRequired(room.type)

\* scores of the candidates of a logged call of rank_candidates
LoggedScores(e) ==
  [i \in 1..Len(e.candidates) |-> Score(e.candidates[i], e.target_price, tier)]

\* C10: on a non-empty list rank_candidates returns a candidate of maximum
\* score, and among several of maximum score the first in input order.
C10_FirstMaximumWins ==
  \A k \in 1..Len(query_log) :
    query_log[k].candidates # << >> =>
      \E j \in 1..Len(query_log[k].candidates) :
        /\ query_log[k].winner = query_log[k].candidates[j]
        /\ \A i \in 1..Len(query_log[k].candidates) :
             LoggedScores(query_log[k])[i] <= LoggedScores(query_log[k])[j]
        /\ \A i \in 1..(j - 1) :
             LoggedScores(query_log[k])[i] < LoggedScores(query_log[k])[j]

\* C10 witness: two candidates share the maximum score and the earlier one won
C10_Witness ==
  /\ pc = "ranked"
  /\ \E i, j \in 1..Len(rank_call.candidates) :
       /\ i < j
       /\ LoggedScores(query_log[1])[i] = LoggedScores(query_log[1])[j]
       /\ \A m \in 1..Len(rank_call.candidates) :
            LoggedScores(query_log[1])[m] <= LoggedScores(query_log[1])[i]
       /\ best = rank_call.candidates[i]

-----------------------------------------------------------------------------
(* Properties of the budget allocation *)

\* the required slot the required loop is at
CurrentRequired == ROOM_FURNITURE_REQUIREMENTS[room.type].required[slot_idx]

\* the optional slot the optional loop is at
CurrentOptional == ROOM_FURNITURE_REQUIREMENTS[room.type].optional[slot_idx]

\* a step of the required loop that issues the slot's catalog query
RequiredQueryStep == pc = "required" /\ Len(query_log') = Len(query_log) + 1

\* a step of the optional loop over one slot
OptionalSlotStep == pc = "optional" /\ slot_idx' = slot_idx + 1

\* the required slot has an entry in the room type's allocation table
RequiredHasEntry(room_type, slot_name) ==
  \/ SplitFirst(slot_name) \in DOMAIN ROOM_BUDGET_ALLOCATION[room_type]
  \/ slot_name \in DOMAIN ROOM_BUDGET_ALLOCATION[room_type]

\* upper bound, in percent, of the range the table gives a required slot
RequiredUpper(room_type, slot_name) ==
  IF SplitFirst(slot_name) \in DOMAIN ROOM_BUDGET_ALLOCATION[room_type]
    THEN ROOM_BUDGET_ALLOCATION[room_type][SplitFirst(slot_name)][2]
    ELSE IF slot_name \in DOMAIN ROOM_BUDGET_ALLOCATION[room_type]
      THEN ROOM_BUDGET_ALLOCATION[room_type][slot_name][2]
      ELSE 25

\* upper bound, in percent, of the range the table gives an optional slot
OptionalUpper(room_type, slot_name) ==
  IF slot_name \in DOMAIN ROOM_BUDGET_ALLOCATION[room_type]
    THEN ROOM_BUDGET_ALLOCATION[room_type][slot_name][2]
    ELSE 8

\* the larger end of a quantity
MaxQuantity(slot) == slot.quantity[Len(slot.quantity)]

\* C12: no selected item's price exceeds max_single_item_pct of the tier times
\* budget_total.
C12_SingleItemCap ==
  \A k \in 1..Len(selected_products) :
    selected_products[k].product.price * 100
      <= BUDGET_TIERS[tier].max_single_item_pct * budget_eur

\* C13 as stated: every catalog query, required or optional, passes min_price =
\* 0.3 x max_price and no selected item costs less than that.
C13_MinPriceOnEveryQuery ==
  \A k \in 1..Len(query_log) :
    /\ query_log[k].args.min_price
         = <<3 * query_log[k].args.max_price[1], 10 * query_log[k].args.max_price[2]>>
    /\ query_log[k].winner # NoProduct =>
         query_log[k].winner.price * 10 * query_log[k].args.max_price[2]
           >= 3 * query_log[k].args.max_price[1]

\* C13 as amended: every catalog query for a required slot passes min_price =
\* 0.3 x max_price, so no item of a required slot costs less than 30% of the
\* per-item budget; the queries for optional slots pass no min_price.
C13_MinPriceOnRequiredQueries ==
  \A k \in 1..Len(query_log) :
    /\ query_log[k].kind = "required" =>
         /\ query_log[k].args.min_price
              = <<3 * query_log[k].args.max_price[1], 10 * query_log[k].args.max_price[2]>>
         /\ query_log[k].winner # NoProduct =>
              query_log[k].winner.price * 10 * query_log[k].args.max_price[2]
                >= 3 * query_log[k].args.max_price[1]
    /\ query_log[k].kind = "optional" => query_log[k].args.min_price = << >>

\* C13 witness: a required item was selected and an optional slot was queried
C13_Witness ==
  /\ pc = "done"
  /\ \E k \in 1..Len(query_log) : query_log[k].kind = "required" /\ query_log[k].winner # NoProduct
  /\ \E k \in 1..Len(query_log) : query_log[k].kind = "optional"

\* C14: an optional slot whose slot_budget is below 15 is skipped: no catalog
\* query, no entry in the result, budget unchanged.
C14_BelowFloorIsSkipped ==
  [][(/\ OptionalSlotStep
      /\ Min(remaining_budget * 40,
             budget_eur * OptionalUpper(room.type, CurrentOptional.slot)) < 15 * 1000 * 100)
       => /\ query_log' = query_log
          /\ selected_products' = selected_products
          /\ remaining_budget' = remaining_budget
          /\ total_spent' = total_spent]_vars

\* C14 witness: a match with money left has returned, and an optional slot of
\* the plan was never queried and is not in the result
C14_Witness ==
  /\ pc = "done"
  /\ HasPlan(room.type)
  /\ result.budget_remaining > 0
  /\ \E k \in 1..Len(ROOM_FURNITURE_REQUIREMENTS[room.type].optional) :
       LET name == ROOM_FURNITURE_REQUIREMENTS[room.type].optional[k].slot IN
         /\ \A j \in 1..Len(query_log) : query_log[j].slot # name
         /\ \A j \in 1..Len(result.products) : result.products[j].slot # name

\* C15: for a required slot, slot_budget is the remaining budget at that moment
\* times the upper bound of the slot's allocation range, and the max_price of
\* the query is slot_budget divided by the slot's quantity.
C15_RequiredSlotBudget ==
  [][RequiredQueryStep =>
       query_log'[Len(query_log')].args.max_price
         = <<remaining_budget * RequiredUpper(room.type, CurrentRequired.slot),
             100 * MaxQuantity(CurrentRequired)>>]_vars

\* C15 witness: the six kitchen chairs were bought on a budget taken from the
\* table's range for chairs
C15_Witness ==
  /\ pc = "done"
  /\ \E k \in 1..Len(query_log) :
       /\ query_log[k].slot = "chairs"
       /\ query_log[k].winner # NoProduct
       /\ query_log[k].args.max_price[2] = 600

\* C16: for an optional slot, slot_budget is min(0.4 x remaining budget,
\* budget_total x upper bound of the slot's range), so no optional item costs
\* more than 40% of the money then remaining.
C16_OptionalSlotBudget ==
  [][(OptionalSlotStep /\ Len(query_log') = Len(query_log) + 1)
       => /\ query_log'[Len(query_log')].args.max_price
               = <<Min(remaining_budget * 40,
                       budget_eur * OptionalUpper(room.type, CurrentOptional.slot)), 100>>
          /\ Len(selected_products') > Len(selected_products) =>
               selected_products'[Len(selected_products')].product.price * 100
                 <= 40 * remaining_budget]_vars

\* C16 witness: an optional slot was queried with 0.4 of the remaining budget,
\* which was less than its share of the total budget
C16_Witness ==
  \E k \in 1..Len(query_log) :
    /\ query_log[k].kind = "optional"
    /\ query_log[k].args.max_price[1]
         < budget_eur * OptionalUpper(room.type, query_log[k].slot)

\* C17 as stated: a slot without an entry in the allocation table is budgeted
\* with the upper bound 0.25, required or optional.
C17_DefaultRangeForEverySlot ==
  [][/\ (RequiredQueryStep /\ ~RequiredHasEntry(room.type, CurrentRequired.slot)) =>
          query_log'[Len(query_log')].args.max_price
            = <<remaining_budget * 25, 100 * MaxQuantity(CurrentRequired)>>
     /\ (/\ OptionalSlotStep /\ Len(query_log') = Len(query_log) + 1
         /\ CurrentOptional.slot \notin DOMAIN ROOM_BUDGET_ALLOCATION[room.type]) =>
          query_log'[Len(query_log')].args.max_price
            = <<Min(remaining_budget * 40, budget_eur * 25), 100>>]_vars

\* C17 as amended: a slot without an entry in the allocation table is budgeted
\* with the default range (0.15, 0.25) (upper bound 0.25) when it is required
\* and with the default range (0.03, 0.08) (upper bound 0.08) when it is optional.
C17_DefaultRangePerKind ==
  [][/\ (RequiredQueryStep /\ ~RequiredHasEntry(room.type, CurrentRequired.slot)) =>
          query_log'[Len(query_log')].args.max_price
            = <<remaining_budget * 25, 100 * MaxQuantity(CurrentRequired)>>
     /\ (/\ OptionalSlotStep /\ Len(query_log') = Len(query_log) + 1
         /\ CurrentOptional.slot \notin DOMAIN ROOM_BUDGET_ALLOCATION[room.type]) =>
          query_log'[Len(query_log')].args.max_price
            = <<Min(remaining_budget * 40, budget_eur * 8), 100>>]_vars

\* C17 witness: a living room whose sofa (required, no entry) was bought and
\* whose tv_unit (optional, no entry) was queried
C17_Witness ==
  /\ room.type = "living room"
  /\ \E k \in 1..Len(query_log) : query_log[k].slot = "sofa" /\ query_log[k].winner # NoProduct
  /\ \E k \in 1..Len(query_log) : query_log[k].slot = "tv_unit"

-----------------------------------------------------------------------------
(* distribute_budget_across_rooms *)

\* ROOM_BUDGET_WEIGHT, in hundredths
ROOM_BUDGET_WEIGHT ==
  ("living room" :> 30) @@ ("bedroom" :> 25) @@ ("kitchen" :> 20) @@
  ("dining room" :> 10) @@ ("office" :> 8) @@ ("kids room" :> 5) @@ ("bathroom" :> 2)

\* base * (area / 15) in units of 1/1500: the common factor cancels in
\* w / total_weight.  A room without the key estimated_area_sqm has area Null.
RoomWeight(r) ==
  LET base == DictGet(ROOM_BUDGET_WEIGHT, r.type, 5)
      area == IF r.estimated_area_sqm = Null THEN 15 ELSE r.estimated_area_sqm
  IN base * area

RECURSIVE SumValues(_, _)
\* sum(d.values()) over the keys in S
SumValues(d, S) ==
  IF S = {} THEN 0
  ELSE LET k == CHOOSE x \in S : TRUE IN d[k] + SumValues(d, S \ {k})

\* round((w / total_weight) * total_budget, 2) for the exact quotient n / d of
\* mills.  The float quotient carries the rounding errors of the weights and of
\* their sum, which depend on the order of the additions: when the exact
\* quotient lies halfway between two cents the float lies on either side,
\* and round() returns the upper cent (up) or the lower one.
RoundShare(n, d, up) ==
  LET q == n \div (10 * d)
      r2 == 2 * (n % (10 * d))
  IN IF r2 < 10 * d THEN 10 * q
     ELSE IF r2 > 10 * d THEN 10 * (q + 1)
     ELSE IF up THEN 10 * (q + 1) ELSE 10 * q

\* room types of a sketch, one of them absent from ROOM_BUDGET_WEIGHT
DistRoomTypes == {"living room", "bedroom", "studio"}

\* estimated_area_sqm: absent, zero, and three sizes
Areas == {Null, 0, 10, 12, 20}

\* lists of rooms, the ids are distinct
RoomLists ==
  UNION {[1..n -> [id : 1..n, type : DistRoomTypes, estimated_area_sqm : Areas]] :
           n \in 0..MaxRooms}

\* total budgets in mills
TotalBudgets == {100000, 999990, 3000000}

InitDistribute ==
  /\ dist_call \in {[rooms |-> l, total_budget |-> t] :
                      l \in {x \in RoomLists : \A i \in 1..Len(x) : x[i].id = i},
                      t \in TotalBudgets}
  /\ room_idx = 1
  /\ weights = << >>
  /\ room_budgets = << >>
  /\ pc = "weigh"
  /\ error = NullStr
  /\ room = Room("living room", 400, 300, << >>)
  /\ budget_eur = 0
  /\ tier = "standard"
  /\ style = NullStr
  /\ catalog = {}
  /\ selected_products = << >>
  /\ remaining_budget = 0
  /\ total_spent = 0
  /\ slot_idx = 1
  /\ unit_idx = 0
  /\ best = NoProduct
  /\ query_log = << >>
  /\ result = NoResult
  /\ rank_call = NoRankCall
  /\ SchedulerIdle
  /\ DimensionIdle
  /\ FrontendIdle

\* what distribute_budget_across_rooms never writes
matcher == <<room, budget_eur, tier, style, catalog, selected_products,
             remaining_budget, total_spent, slot_idx, unit_idx, best, query_log,
             result, rank_call, scheduler, dimension, frontend>>

\* for room in rooms: weights[room["id"]] = base * (area / 15)
WeighRoom ==
  /\ pc = "weigh"
  /\ room_idx <= Len(dist_call.rooms)
  /\ LET r == dist_call.rooms[room_idx]
     IN weights' = (r.id :> RoomWeight(r)) @@ weights
  /\ room_idx' = room_idx + 1
  /\ UNCHANGED <<matcher, dist_call, room_budgets, pc, error>>

\* total_weight = sum(weights.values()) and the returned dict; the division
\* raises when there are rooms and their weights sum to zero
Distribute ==
  /\ pc = "weigh"
  /\ room_idx > Len(dist_call.rooms)
  /\ LET total_weight == SumValues(weights, DOMAIN weights) IN
       IF DOMAIN weights # {} /\ total_weight = 0
         THEN /\ pc' = "raised"
              /\ error' = "ZeroDivisionError"
              /\ UNCHANGED room_budgets
         ELSE /\ \E up \in [DOMAIN weights -> BOOLEAN] :
                   room_budgets' =
                     [rid \in DOMAIN weights |->
                        RoundShare(weights[rid] * dist_call.total_budget, total_weight, up[rid])]
              /\ pc' = "distributed"
              /\ UNCHANGED error
  /\ UNCHANGED <<matcher, dist_call, room_idx, weights>>

NextDistribute == WeighRoom \/ Distribute

SpecDistribute == InitDistribute /\ [][NextDistribute]_vars

\* base weight x area as the contract states them, in units of 1/1500
ContractWeight(r) ==
  (IF r.type \in DOMAIN ROOM_BUDGET_WEIGHT THEN ROOM_BUDGET_WEIGHT[r.type] ELSE 5)
    * (IF r.estimated_area_sqm = Null THEN 15 ELSE r.estimated_area_sqm)

RECURSIVE SumContractWeights(_)
SumContractWeights(rooms) ==
  IF rooms = << >> THEN 0
  ELSE ContractWeight(Head(rooms)) + SumContractWeights(Tail(rooms))

RECURSIVE SumAmounts(_, _)
SumAmounts(d, S) ==
  IF S = {} THEN 0
  ELSE LET k == CHOOSE x \in S : TRUE IN d[k] + SumAmounts(d, S \ {k})

\* C18: each room is given total_budget x w / (sum of the rooms' w) rounded to
\* 2 decimals, w = base weight (0.05 for an unknown type) x area / 15 (area 15
\* when absent): an amount fixed by the rooms and the total, whatever the order
\* of the list.
C18_ShareByWeight ==
  pc = "distributed" =>
    \A i \in 1..Len(dist_call.rooms) :
      LET n == dist_call.total_budget * ContractWeight(dist_call.rooms[i])
          d == 10 * SumContractWeights(dist_call.rooms)
          q == n \div d
          r2 == 2 * (n % d)
          cents == IF r2 < d THEN q
                   ELSE IF r2 > d THEN q + 1
                   ELSE IF q % 2 = 0 THEN q ELSE q + 1
      IN room_budgets[dist_call.rooms[i].id] = 10 * cents

\* C19: for rooms with distinct ids and positive weights, the amounts returned
\* sum to total_budget.
C19_AmountsSumToTotal ==
  (/\ pc = "distributed"
   /\ dist_call.rooms # << >>
   /\ \A i \in 1..Len(dist_call.rooms) : ContractWeight(dist_call.rooms[i]) > 0)
    => SumAmounts(room_budgets, DOMAIN room_budgets) = dist_call.total_budget

-----------------------------------------------------------------------------
(* Rooms of one sketch matched as concurrent tasks *)

\* the tasks, one per room
TaskIds == {1, 2}

\* the arguments and local variables of the call that runs
Registers ==
  [room |-> room, budget_eur |-> budget_eur, selected_products |-> selected_products,
   remaining_budget |-> remaining_budget, total_spent |-> total_spent, pc |-> pc,
   slot_idx |-> slot_idx, unit_idx |-> unit_idx, best |-> best,
   query_log |-> query_log, result |-> result, error |-> error]

\* the locals of a call on entry: remaining_budget = budget_eur, total_spent = 0,
\* selected_products = []
StartContext(r, b) ==
  [room |-> r, budget_eur |-> b, selected_products |-> << >>,
   remaining_budget |-> b, total_spent |-> 0, pc |-> "required",
   slot_idx |-> 1, unit_idx |-> 0, best |-> NoProduct,
   query_log |-> << >>, result |-> NoResult, error |-> NullStr]

\* a call is entered with the arguments and fresh locals of c
StartTask(c) ==
  /\ room' = c.room
  /\ budget_eur' = c.budget_eur
  /\ selected_products' = c.selected_products
  /\ remaining_budget' = c.remaining_budget
  /\ total_spent' = c.total_spent
  /\ pc' = c.pc
  /\ slot_idx' = c.slot_idx
  /\ unit_idx' = c.unit_idx
  /\ best' = c.best
  /\ query_log' = c.query_log
  /\ result' = c.result
  /\ error' = c.error

\* mutant: remaining_budget is one variable shared by all calls
LoadContext_SharedBudget(c) ==
  /\ room' = c.room
  /\ budget_eur' = c.budget_eur
  /\ selected_products' = c.selected_products
  /\ remaining_budget' = remaining_budget
  /\ total_spent' = c.total_spent
  /\ pc' = c.pc
  /\ slot_idx' = c.slot_idx
  /\ unit_idx' = c.unit_idx
  /\ best' = c.best
  /\ query_log' = c.query_log
  /\ result' = c.result
  /\ error' = c.error

\* a suspended call resumes with its own arguments and locals
LoadContext(c) ==
  /\ room' = c.room
  /\ budget_eur' = c.budget_eur
  /\ selected_products' = c.selected_products
  /\ remaining_budget' = c.remaining_budget
  /\ total_spent' = c.total_spent
  /\ pc' = c.pc
  /\ slot_idx' = c.slot_idx
  /\ unit_idx' = c.unit_idx
  /\ best' = c.best
  /\ query_log' = c.query_log
  /\ result' = c.result
  /\ error' = c.error

\* rooms of the sketch
ConcRooms == {Room("living room", 400, 300, << >>), Room("kitchen", 400, 300, << >>)}

\* catalog snapshots over a sofa, a chair, a TV stand and a dining table
ConcCatalogs == {S \in Catalogs : \A p \in S : p.id \in {1, 5, 6, 9}}

\* tier of the request (the default of furnish_room)
ConcTiers == {"standard"}

InitConc ==
  /\ tasks \in [TaskIds -> {StartContext(r, b) : r \in ConcRooms, b \in Budgets}]
  /\ running = 1
  /\ solo = << >>
  /\ phase = "solo"
  /\ tier \in ConcTiers
  /\ style = NullStr
  /\ catalog \in ConcCatalogs
  /\ rank_call = NoRankCall
  /\ DistributorIdle
  /\ DimensionIdle
  /\ FrontendIdle
  /\ room = tasks[1].room
  /\ budget_eur = tasks[1].budget_eur
  /\ selected_products = << >>
  /\ remaining_budget = tasks[1].budget_eur
  /\ total_spent = 0
  /\ pc = "required"
  /\ slot_idx = 1
  /\ unit_idx = 0
  /\ best = NoProduct
  /\ query_log = << >>
  /\ result = NoResult
  /\ error = NullStr

\* a room matched alone has returned or raised: its outcome is kept, and the
\* next room is matched alone; after the last one the rooms start as tasks
SoloReturn ==
  /\ phase = "solo"
  /\ pc \in {"done", "raised"}
  /\ solo' = (running :> [result |-> result, error |-> error]) @@ solo
  /\ IF running + 1 \in TaskIds
       THEN /\ running' = running + 1
            /\ StartTask(tasks[running + 1])
            /\ UNCHANGED phase
       ELSE /\ running' = 1
            /\ StartTask(tasks[1])
            /\ phase' = "conc"
  /\ UNCHANGED <<tier, style, catalog, rank_call, distributor, tasks,
                 dimension, frontend>>

\* the running task is suspended between two slot steps and task t resumes
Switch(t) ==
  /\ phase = "conc"
  /\ t # running
  /\ tasks' = [tasks EXCEPT ![running] = Registers]
  /\ running' = t
  /\ LoadContext(tasks[t])
  /\ UNCHANGED <<tier, style, catalog, rank_call, distributor, solo, phase,
                 dimension, frontend>>

NextConc ==
  \/ RequiredSlot
  \/ RequiredUnit
  \/ EnterOptional
  \/ OptionalSlot
  \/ EndOptional
  \/ Assemble
  \/ SoloReturn
  \/ \E t \in TaskIds : Switch(t)

SpecConc == InitConc /\ [][NextConc]_vars

\* the locals of task t, running or suspended
ContextOf(t) == IF t = running THEN Registers ELSE tasks[t]

\* C20: rooms matched as concurrent tasks against one catalog snapshot: under
\* every interleaving of their slot steps each room ends with the MatchResult
\* (or the error) it gets when matched alone.
C20_ConcurrentEqualsAlone ==
  phase = "conc" =>
    \A t \in TaskIds :
      ContextOf(t).pc \in {"done", "raised"} =>
        /\ ContextOf(t).result = solo[t].result
        /\ ContextOf(t).error = solo[t].error

\* C20 witness: a task has returned a MatchResult with purchases while the
\* other one is suspended between two of its slot steps, purchases made
C20_Witness ==
  /\ phase = "conc"
  /\ pc = "done"
  /\ total_spent > 0
  /\ \E t \in TaskIds \ {running} :
       /\ tasks[t].pc \in {"required", "optional"}
       /\ tasks[t].total_spent > 0

-----------------------------------------------------------------------------
(* Properties of the selected items and of the returned dict *)

\* the required slot of a room type's plan with the given name
RequiredSlotNamed(room_type, name) ==
  LET req == ROOM_FURNITURE_REQUIREMENTS[room_type].required
  IN req[CHOOSE k \in 1..Len(req) : req[k].slot = name]

\* positions of the selected items of a slot
ItemsOfSlot(name) ==
  {j \in 1..Len(selected_products) : selected_products[j].slot = name}

\* units a logged query has bought once its slot is complete
UnitsBought(e) ==
  IF e.winner = NoProduct THEN 0
  ELSE IF e.kind = "required" THEN MaxQuantity(RequiredSlotNamed(room.type, e.slot))
  ELSE 1

RECURSIVE LoggedSpend(_)
\* the price of every unit the logged queries have bought
LoggedSpend(log) ==
  IF log = << >> THEN 0
  ELSE LoggedSpend(SubSeq(log, 1, Len(log) - 1))
         + UnitsBought(log[Len(log)]) * (IF log[Len(log)].winner = NoProduct THEN 0
                                         ELSE log[Len(log)].winner.price)

\* C24: a required slot whose query returned candidates yields exactly n items,
\* all with the winning product and quantity 1, n the fixed quantity or the
\* maximum of the range, and the remaining budget has dropped by n x the
\* winner's price.
C24_RequiredSlotYieldsQuantityItems ==
  pc # "required_unit" =>
    /\ \A k \in 1..Len(query_log) :
         (query_log[k].kind = "required" /\ query_log[k].candidates # << >>) =>
           /\ Cardinality(ItemsOfSlot(query_log[k].slot))
                = MaxQuantity(RequiredSlotNamed(room.type, query_log[k].slot))
           /\ \A j \in ItemsOfSlot(query_log[k].slot) :
                /\ selected_products[j].product = query_log[k].winner
                /\ selected_products[j].quantity = 1
    /\ pc \in {"required", "optional", "assemble", "done", "raised"} =>
         remaining_budget = budget_eur - LoggedSpend(query_log)

\* C24 witness: the kitchen's chairs, quantity (2, 6), were bought six times
C24_Witness ==
  /\ pc = "done"
  /\ room.type = "kitchen"
  /\ Cardinality(ItemsOfSlot("chairs")) = 6
  /\ remaining_budget < budget_eur

RECURSIVE ItemsWithImage(_)
\* <<slot, image key>> of the items that have an image reference key, in order
ItemsWithImage(items) ==
  IF items = << >> THEN << >>
  ELSE (IF Head(items).product.r2_main_image_key \notin {NullStr, ""}
          THEN << <<Head(items).slot, Head(items).product.r2_main_image_key>> >>
          ELSE << >>) \o ItemsWithImage(Tail(items))

\* the render-reference list is the items with an image reference key, in order
RenderListIsFiltered ==
  [k \in 1..Len(result.product_images_for_render) |->
     <<result.product_images_for_render[k].slot, result.product_images_for_render[k].r2_key>>]
    = ItemsWithImage(result.products)

\* C25 as stated: the render-reference list and the buy-link list each hold
\* exactly the selected items with an image reference key, in the order of the
\* products list.
C25_BothListsFiltered ==
  pc = "done" =>
    /\ RenderListIsFiltered
    /\ [k \in 1..Len(result.buy_links) |-> result.buy_links[k].image_key]
         = [k \in 1..Len(ItemsWithImage(result.products)) |->
              ItemsWithImage(result.products)[k][2]]

\* C25 as amended: the render-reference list holds exactly the selected items
\* with an image reference key, in the order of the products list; the buy-link
\* list holds every selected item in that order, an item without an image
\* reference included.
C25_RenderFilteredBuyLinksAll ==
  pc = "done" =>
    /\ RenderListIsFiltered
    /\ Len(result.buy_links) = Len(result.products)
    /\ \A k \in 1..Len(result.products) :
         /\ result.buy_links[k].name = result.products[k].product.id
         /\ result.buy_links[k].price = result.products[k].product.price
         /\ result.buy_links[k].image_key = result.products[k].product.r2_main_image_key

\* C25 witness: a result with an item whose image key is empty and one with a key
C25_Witness ==
  /\ pc = "done"
  /\ \E k \in 1..Len(result.products) : result.products[k].product.r2_main_image_key = ""
  /\ \E k \in 1..Len(result.products) : result.products[k].product.r2_main_image_key \notin {NullStr, ""}

\* C26: the score rank_candidates computes for a candidate is the sum of the
\* table's signals whose condition holds, the luxury alignment applying to every
\* luxury_score in [0, 1].  price / target is compared by cross multiplication
\* and no price signal applies to a target of 0.
C26_ScoreIsTableSum ==
  pc = "ranked" =>
    \A i \in 1..Len(rank_call.candidates) :
      LET c == rank_call.candidates[i]
          target_price == rank_call.target_price
          hasTarget == target_price[1] # 0
          ratioIn(lo10, hi10) == /\ hasTarget
                                 /\ lo10 * target_price[1] <= 10 * c.price * target_price[2]
                                 /\ 10 * c.price * target_price[2] <= hi10 * target_price[1]
      IN LoggedScores(query_log[1])[i]
           = (IF ratioIn(6, 11) THEN 30 ELSE IF ratioIn(4, 13) THEN 15 ELSE 0)
             + (IF hasTarget /\ tier = "luxury"
                   /\ 10 * c.price * target_price[2] > 8 * target_price[1]
                  THEN 10 ELSE 0)
             + (IF c.r2_main_image_key \notin {NullStr, ""} THEN 25 ELSE 0)
             + (IF c.dimensions_source \in {"website_verified", "ai_estimated"} THEN 20
                ELSE IF c.width_cm # Null THEN 10 ELSE 0)
             + (IF c.visual_description \notin {NullStr, ""} THEN 15 ELSE 0)
             + (IF c.proportion_w_h # Null THEN 15 ELSE 0)
             + (IF c.luxury_score = Null THEN 0
                ELSE IF tier = "luxury" /\ c.luxury_score > 70 THEN 15
                ELSE IF tier = "budget" /\ c.luxury_score < 30 THEN 10
                ELSE IF tier \in {"standard", "premium"}
                        /\ 30 <= c.luxury_score /\ c.luxury_score <= 70
                       THEN 10 ELSE 0)
             + (IF c.rating # Null /\ c.rating >= 400 THEN 10 ELSE 0)

\* C28: with budget_total > 0 the remaining budget stays strictly positive, the
\* optional loop never stops early, and an optional slot that is not queried is
\* one whose slot_budget is below 15.
C28_BudgetNeverExhausted ==
  /\ [](budget_eur > 0 => remaining_budget > 0)
  /\ [][budget_eur > 0 =>
          /\ (pc = "optional" /\ pc' = "assemble") =>
               slot_idx > Len(PlanSlotNames(room.type)) - NumRequired(room.type)
          /\ (OptionalSlotStep /\ query_log' = query_log) =>
               Min(remaining_budget * 40,
                   budget_eur * OptionalUpper(room.type, CurrentOptional.slot)) < 15 * 1000 * 100]_vars

\* C28 witness: a match that bought for required and optional slots has gone
\* through every optional slot
C28_Witness ==
  /\ pc = "done"
  /\ HasPlan(room.type)
  /\ budget_eur > 0
  /\ slot_idx > Len(ROOM_FURNITURE_REQUIREMENTS[room.type].optional)
  /\ \E k \in 1..Len(query_log) : query_log[k].kind = "required" /\ query_log[k].winner # NoProduct
  /\ \E k \in 1..Len(query_log) : query_log[k].kind = "optional" /\ query_log[k].winner # NoProduct

-----------------------------------------------------------------------------
(* get_max_dimension_for_slot called on its own *)

\* match_furniture_for_room, rank_candidates and
\* distribute_budget_across_rooms are not running
MatcherIdle ==
  /\ room = Room("living room", 400, 300, << >>)
  /\ budget_eur = 0
  /\ tier = "standard"
  /\ style = NullStr
  /\ catalog = {}
  /\ selected_products = << >>
  /\ remaining_budget = 0
  /\ total_spent = 0
  /\ slot_idx = 1
  /\ unit_idx = 0
  /\ best = NoProduct
  /\ query_log = << >>
  /\ result = NoResult
  /\ error = NullStr
  /\ rank_call = NoRankCall
  /\ DistributorIdle
  /\ SchedulerIdle

\* the slot names of the limits table, and one the table does not have
DimSlots ==
  {"sofa", "coffee_table", "bed", "wardrobe", "desk", "dining_table", "tv_unit",
   "bookcase", "nightstand", "dresser", "lamp", "rug", "chair", "armchair",
   "side_table", "mirror", "bar_stool"}

\* rooms 0, 360 and 400 cm wide and 0 or 300 cm deep, with each wall list
DimRooms ==
  {Room("living room", w, d, walls) : w \in {0, 360, 400}, d \in {0, 300},
                                      walls \in WallChoices}

InitDim ==
  /\ dim_call \in {[slot |-> s, room |-> r] : s \in DimSlots, r \in DimRooms}
  /\ dim_result = Null
  /\ pc = "measure"
  /\ MatcherIdle
  /\ FrontendIdle

\* dim_result = get_max_dimension_for_slot(slot, room)
GetMaxDimension ==
  /\ pc = "measure"
  /\ dim_result' = get_max_dimension_for_slot(dim_call.slot, dim_call.room)
  /\ pc' = "measured"
  /\ UNCHANGED <<room, budget_eur, tier, style, catalog, rank_call, distributor,
                 scheduler, frontend, dim_call, selected_products,
                 remaining_budget, total_spent, slot_idx, unit_idx, best,
                 query_log, result, error>>

NextDim == GetMaxDimension

SpecDim == InitDim /\ [][NextDim]_vars

\* C27: get_max_dimension_for_slot returns the free length of the first wall,
\* in list order, whose suitable_for contains the slot; when no wall lists the
\* slot it returns the slot's limit of the static table (0.75 x room width for
\* a sofa, min(0.7 x room width, 220) for a bed, ...), 0.5 x room width for a
\* slot the table does not have, each truncated to an integer.
C27_WallLengthOrTableLimit ==
  pc = "measured" =>
    LET slot == dim_call.slot
        walls == dim_call.room.usable_walls
        w == dim_call.room.estimated_width_cm
        d == dim_call.room.estimated_depth_cm
        listing == {k \in 1..Len(walls) : slot \in walls[k].suitable_for}
        first == CHOOSE k \in listing : \A j \in listing : k <= j
        limit == CASE slot = "sofa"         -> (75 * w) \div 100
                   [] slot = "coffee_table" -> (35 * w) \div 100
                   [] slot = "bed"          -> IF 70 * w <= 22000 THEN (70 * w) \div 100 ELSE 220
                   [] slot = "wardrobe"     -> (60 * w) \div 100
                   [] slot = "desk"         -> IF 50 * w <= 18000 THEN (50 * w) \div 100 ELSE 180
                   [] slot = "dining_table" -> IF 60 * w <= 50 * d THEN (60 * w) \div 100 ELSE (50 * d) \div 100
                   [] slot = "tv_unit"      -> (50 * w) \div 100
                   [] slot = "bookcase"     -> (40 * w) \div 100
                   [] slot = "nightstand"   -> 60
                   [] slot = "dresser"      -> (40 * w) \div 100
                   [] slot = "lamp"         -> 50
                   [] slot = "rug"          -> (70 * w) \div 100
                   [] slot = "chair"        -> 80
                   [] slot = "armchair"     -> 100
                   [] slot = "side_table"   -> 60
                   [] slot = "mirror"       -> (30 * w) \div 100
                   [] OTHER                 -> (50 * w) \div 100
    IN IF listing # {}
         THEN walls[first].free_length_cm # Null
                => dim_result = walls[first].free_length_cm
         ELSE dim_result = limit

-----------------------------------------------------------------------------
(* ConfigPanel and the furnish request (amounts in whole euros) *)

ROOM_OPTIONS ==
  {"living_room", "bedroom", "kitchen", "bathroom", "office", "kids_room", "dining_room"}

STYLE_OPTIONS == {"modern", "scandinavian", "industrial", "classic", "minimalist"}

\* perSqmMin and perSqmMax of each tier card, in euros per square metre
TIER_OPTIONS ==
  [budget   |-> [perSqmMin |-> 40,  perSqmMax |-> 80],
   standard |-> [perSqmMin |-> 80,  perSqmMax |-> 150],
   premium  |-> [perSqmMin |-> 150, perSqmMax |-> 300],
   luxury   |-> [perSqmMin |-> 300, perSqmMax |-> 600]]

DEFAULT_ROOM_SQM == 20

\* Math.round(((perSqmMin + perSqmMax) / 2) * areaSqm); Math.round takes a
\* half to the next integer upwards
tierMidpointBudget(t, areaSqm) ==
  ((TIER_OPTIONS[t].perSqmMin + TIER_OPTIONS[t].perSqmMax) * areaSqm + 1) \div 2

\* what the user can type into the two number fields
RawInputs ==
  {"", "abc", "-5", "0", "35", "50", "100", "1e3", "2500.9", "50000", "60000"}

\* parseInt(raw, 10): the leading integer of the text, NaN if there is none
ParseInt(raw) ==
  CASE raw = ""       -> [nan |-> TRUE,  value |-> 0]
    [] raw = "abc"    -> [nan |-> TRUE,  value |-> 0]
    [] raw = "-5"     -> [nan |-> FALSE, value |-> -5]
    [] raw = "0"      -> [nan |-> FALSE, value |-> 0]
    [] raw = "35"     -> [nan |-> FALSE, value |-> 35]
    [] raw = "50"     -> [nan |-> FALSE, value |-> 50]
    [] raw = "100"    -> [nan |-> FALSE, value |-> 100]
    [] raw = "1e3"    -> [nan |-> FALSE, value |-> 1]
    [] raw = "2500.9" -> [nan |-> FALSE, value |-> 2500]
    [] raw = "50000"  -> [nan |-> FALSE, value |-> 50000]
    [] raw = "60000"  -> [nan |-> FALSE, value |-> 60000]

\* the texts typed into the room-area field
AreaInputs == {"", "abc", "-5", "0", "35"}

Max(a, b) == IF a >= b THEN a ELSE b

\* mutant: the budget is only capped from above
ClampBudget_NoFloor(customBudget) == Min(customBudget, 50000)

\* Math.min(Math.max(customBudget, 100), 50000)
ClampBudget(customBudget) == Min(Max(customBudget, 100), 50000)

\* a room of rooms["rooms"], as analyze_room returns it
DetectedRoom(id, type) ==
  [id |-> id, type |-> type, estimated_width_cm |-> 400,
   estimated_depth_cm |-> 300, usable_walls |-> << >>]

\* what analyze_room finds in the sketch: one room or two
Analyses ==
  { <<DetectedRoom("room_1", "living room")>>,
    <<DetectedRoom("room_1", "kitchen")>>,
    <<DetectedRoom("room_1", "bedroom"), DetectedRoom("room_2", "living room")>> }

\* ConfigPanel after mounting without detectedRoomType: the useState defaults,
\* then the budget effect of the first render
InitConfig ==
  /\ panel = [mounted |-> TRUE, selectedRoom |-> "living_room",
              selectedStyle |-> "modern", selectedTier |-> "standard",
              roomAreaSqm |-> DEFAULT_ROOM_SQM,
              customBudget |-> tierMidpointBudget("standard", DEFAULT_ROOM_SQM)]
  /\ submitted = [sent |-> FALSE]
  /\ analysis \in Analyses
  /\ matched_room = [matched |-> FALSE]
  /\ view = [mounted |-> FALSE]
  /\ pending = {}
  /\ design = [stored |-> FALSE]
  /\ sent = 0
  /\ pc = "configure"
  /\ MatcherIdle
  /\ DimensionIdle

\* what no step of the panel or of furnish_room writes
ConfigFrame ==
  UNCHANGED <<room, budget_eur, tier, style, catalog, rank_call, distributor,
              scheduler, dimension, selected_products, remaining_budget,
              total_spent, slot_idx, unit_idx, best, query_log, result, error,
              view, pending, design, sent, analysis>>

\* onChange of the room type select
SelectRoom(value) ==
  /\ pc = "configure"
  /\ panel' = [panel EXCEPT !.selectedRoom = value]
  /\ UNCHANGED <<submitted, matched_room, pc>>
  /\ ConfigFrame

\* onClick of a style button
SelectStyle(value) ==
  /\ pc = "configure"
  /\ panel' = [panel EXCEPT !.selectedStyle = value]
  /\ UNCHANGED <<submitted, matched_room, pc>>
  /\ ConfigFrame

\* onClick of a tier card; the effect on [selectedTier, roomAreaSqm] runs when
\* the tier has changed and resets the budget to the tier's midpoint
SelectTier(value) ==
  /\ pc = "configure"
  /\ panel' = [panel EXCEPT
                 !.selectedTier = value,
                 !.customBudget = IF value # panel.selectedTier
                                    THEN tierMidpointBudget(value, panel.roomAreaSqm)
                                    ELSE @]
  /\ UNCHANGED <<submitted, matched_room, pc>>
  /\ ConfigFrame

\* onChange of the room-area field: NaN becomes 0; the budget effect runs when
\* the area has changed
EditArea(raw) ==
  /\ pc = "configure"
  /\ LET parsed == ParseInt(raw)
         area == IF parsed.nan THEN 0 ELSE parsed.value
     IN panel' = [panel EXCEPT
                    !.roomAreaSqm = area,
                    !.customBudget = IF area # panel.roomAreaSqm
                                       THEN tierMidpointBudget(panel.selectedTier, area)
                                       ELSE @]
  /\ UNCHANGED <<submitted, matched_room, pc>>
  /\ ConfigFrame

\* handleBudgetChange(raw)
EditBudget(raw) ==
  /\ pc = "configure"
  /\ LET parsed == ParseInt(raw)
     IN panel' = [panel EXCEPT
                    !.customBudget = IF parsed.nan THEN 0 ELSE parsed.value]
  /\ UNCHANGED <<submitted, matched_room, pc>>
  /\ ConfigFrame

\* handleSubmit: onSubmit({budget, tier, style, roomType}); the page passes
\* the config on to furnishRoom, which posts roomType as the field room_id
Submit ==
  /\ pc = "configure"
  /\ submitted' = [sent |-> TRUE,
                   budget |-> ClampBudget(panel.customBudget),
                   tier |-> panel.selectedTier,
                   style |-> panel.selectedStyle,
                   roomType |-> panel.selectedRoom,
                   room_id |-> panel.selectedRoom]
  /\ pc' = "generating"
  /\ UNCHANGED <<panel, matched_room>>
  /\ ConfigFrame

\* next((r for r in rooms["rooms"] if r["id"] == room_id), rooms["rooms"][0])
RoomById(rooms, room_id) ==
  IF \E k \in 1..Len(rooms) : rooms[k].id = room_id
    THEN rooms[CHOOSE k \in 1..Len(rooms) :
                 /\ rooms[k].id = room_id
                 /\ \A j \in 1..(k - 1) : rooms[j].id # room_id]
    ELSE rooms[1]

\* furnish_room up to its call match_furniture_for_room(room, budget, tier, style)
FurnishRoom ==
  /\ pc = "generating"
  /\ matched_room' = [matched |-> TRUE,
                      room |-> RoomById(analysis, submitted.room_id),
                      budget |-> submitted.budget,
                      tier |-> submitted.tier,
                      style |-> submitted.style]
  /\ pc' = "matching"
  /\ UNCHANGED <<panel, submitted>>
  /\ ConfigFrame

NextConfig ==
  \/ \E value \in ROOM_OPTIONS : SelectRoom(value)
  \/ \E value \in STYLE_OPTIONS : SelectStyle(value)
  \/ \E value \in DOMAIN TIER_OPTIONS : SelectTier(value)
  \/ \E raw \in AreaInputs : EditArea(raw)
  \/ \E raw \in RawInputs : EditBudget(raw)
  \/ Submit
  \/ FurnishRoom

SpecConfig == InitConfig /\ [][NextConfig]_vars

\* C22: submitting with room type T selected in ConfigPanel makes the backend
\* run match_furniture_for_room on a room of type T.
C22_MatchedForSelectedRoomType ==
  matched_room.matched => matched_room.room.type = submitted.roomType

\* C23: whatever tiers were selected and whatever was typed into the area and
\* budget fields, the budget passed to onSubmit lies in [100, 50000].
C23_SubmittedBudgetInRange ==
  submitted.sent => submitted.budget >= 100 /\ submitted.budget <= 50000

\* an emptied budget field is submitted as 100, a budget above the range as
\* 50000
C23_Witness ==
  /\ submitted.sent
  /\ panel.customBudget = 0
  /\ submitted.budget = 100

-----------------------------------------------------------------------------
(* The design page (DesignResultPage) and POST /api/swap *)

\* largest number of API calls one run of the design page sends
MaxCalls == 3

\* the slots of the product list of the design
SwapSlots == {"sofa", "chair"}

\* the product row with this id
ProductById(id) == CHOOSE p \in Pool : p.id = id

\* a render image: its version in renders/{design_id}/ and the product it shows
\* in each slot; render_url stands for the image it points to
Render(version, shows) == [version |-> version, shows |-> shows]

\* result.render_url of a response without render_url: undefined
NoRender == [version |-> 0]

RECURSIVE SumPrices(_, _)
\* the sum of the prices of the products a render shows in the slots S
SumPrices(shows, S) ==
  IF S = {} THEN 0
  ELSE LET slot == CHOOSE x \in S : TRUE
       IN ProductById(shows[slot]).price + SumPrices(shows, S \ {slot})

\* a stored design: the matched products, their total and what is left of the
\* budget, and the first render
StoredDesign(products, budget_remaining) ==
  [stored |-> TRUE, products |-> products,
   budget_spent |-> SumPrices(products, DOMAIN products),
   budget_remaining |-> budget_remaining,
   render |-> Render(1, products)]

\* designs with a sofa and a chair, the budget used up or not
Designs ==
  {StoredDesign([sofa |-> s, chair |-> 5], left) : s \in {1, 7}, left \in {0, 10000, 80000}}

\* the DesignResult the furnish response carried, as kept in localStorage
DesignResultOf(d) ==
  [render_url |-> d.render, products |-> d.products,
   budget_spent |-> d.budget_spent, budget_remaining |-> d.budget_remaining]

\* the page after mounting and loading the design from localStorage
InitSwap ==
  /\ design \in Designs
  /\ view = [mounted |-> TRUE, designResult |-> DesignResultOf(design),
             localStorage |-> DesignResultOf(design),
             swapSlot |-> NullStr, alternatives |-> << >>,
             isSwapLoading |-> FALSE, isSwapModalOpen |-> FALSE]
  /\ pending = {}
  /\ sent = 0
  /\ panel = [mounted |-> FALSE]
  /\ submitted = [sent |-> FALSE]
  /\ analysis = << >>
  /\ matched_room = [matched |-> FALSE]
  /\ pc = "result"
  /\ MatcherIdle
  /\ DimensionIdle

\* what no step of the design page or of /api/swap writes
SwapFrame ==
  UNCHANGED <<room, budget_eur, tier, style, catalog, rank_call, distributor,
              scheduler, dimension, selected_products, remaining_budget,
              total_spent, slot_idx, unit_idx, best, query_log, result, error,
              pc, panel, submitted, analysis, matched_room>>

\* a call of the API client that has not returned yet
Call(id, kind, slot, product_id) ==
  [id |-> id, kind |-> kind, slot |-> slot, product_id |-> product_id]

\* handleSwap(slot) up to its await: the product cards are reachable while the
\* modal, which covers the page, is closed
HandleSwap(slot) ==
  /\ view.mounted
  /\ ~view.isSwapModalOpen
  /\ sent < MaxCalls
  /\ view' = [view EXCEPT !.swapSlot = slot, !.alternatives = << >>,
                          !.isSwapModalOpen = TRUE, !.isSwapLoading = TRUE]
  /\ pending' = pending \cup {Call(sent + 1, "alternatives", slot, 0)}
  /\ sent' = sent + 1
  /\ UNCHANGED design
  /\ SwapFrame

\* onClose of SwapModal (close button or backdrop)
CloseModal ==
  /\ view.mounted
  /\ view.isSwapModalOpen
  /\ view' = [view EXCEPT !.isSwapModalOpen = FALSE, !.swapSlot = NullStr,
                          !.alternatives = << >>]
  /\ UNCHANGED <<pending, design, sent>>
  /\ SwapFrame

\* get_current_product_price(design, slot)
get_current_product_price(d, slot) == ProductById(d.products[slot]).price

\* /api/swap without product_id: the ids of the alternatives, in order
SwapAlternatives(d, slot) ==
  LET rows == query_supabase_for_matching(Pool,
                QueryArgs({slot}, NullStr, NullStr, << >>,
                          <<d.budget_remaining + get_current_product_price(d, slot), 1>>,
                          Null, {}, TRUE, FALSE, 5))
  IN [k \in 1..Len(rows) |-> rows[k].id]

\* the rest of handleSwap: getAlternatives returns or throws
AlternativesArrive(c) ==
  /\ c \in pending
  /\ c.kind = "alternatives"
  /\ pending' = pending \ {c}
  /\ \E ok \in BOOLEAN :
       view' = [view EXCEPT
                  !.alternatives = IF ok THEN SwapAlternatives(design, c.slot) ELSE @,
                  !.isSwapLoading = FALSE]
  /\ UNCHANGED <<design, sent>>
  /\ SwapFrame

\* handleSwapSelect(productId) up to its await: a select button of the list
\* the modal shows when it is open and not loading
HandleSwapSelect(productId) ==
  /\ view.mounted
  /\ view.isSwapModalOpen
  /\ ~view.isSwapLoading
  /\ \E k \in 1..Len(view.alternatives) : view.alternatives[k] = productId
  /\ view.swapSlot # NullStr
  /\ sent < MaxCalls
  /\ view' = [view EXCEPT !.isSwapLoading = TRUE]
  /\ pending' = pending \cup {Call(sent + 1, "swap", view.swapSlot, productId)}
  /\ sent' = sent + 1
  /\ UNCHANGED design
  /\ SwapFrame

\* swap_product_in_design: the slot is redrawn with the new product, the new
\* render is stored under the next version and the design row gets its key
swap_product_in_design(d, slot_to_swap, product_id) ==
  [d EXCEPT !.render = Render(d.render.version + 1,
                              [d.render.shows EXCEPT ![slot_to_swap] = product_id])]

\* /api/swap with product_id and the rest of handleSwapSelect: the swap is
\* rendered and the page takes result.render_url, the model returns no image
\* and the response has no render_url, or the call throws
SwapArrive(c) ==
  /\ c \in pending
  /\ c.kind = "swap"
  /\ pending' = pending \ {c}
  /\ \E outcome \in {"rendered", "swap_render_failed", "thrown"} :
       CASE outcome = "rendered" ->
              /\ design' = swap_product_in_design(design, c.slot, c.product_id)
              /\ view' = [view EXCEPT
                            !.designResult.render_url = design'.render,
                            !.localStorage.render_url = design'.render,
                            !.isSwapModalOpen = FALSE, !.swapSlot = NullStr,
                            !.alternatives = << >>, !.isSwapLoading = FALSE]
         [] outcome = "swap_render_failed" ->
              /\ design' = design
              /\ view' = [view EXCEPT
                            !.designResult.render_url = NoRender,
                            !.localStorage.render_url = NoRender,
                            !.isSwapModalOpen = FALSE, !.swapSlot = NullStr,
                            !.alternatives = << >>, !.isSwapLoading = FALSE]
         [] outcome = "thrown" ->
              /\ design' = design
              /\ view' = [view EXCEPT !.isSwapLoading = FALSE]
  /\ UNCHANGED sent
  /\ SwapFrame

NextSwap ==
  \/ \E slot \in SwapSlots : HandleSwap(slot)
  \/ CloseModal
  \/ \E c \in pending : AlternativesArrive(c)
  \/ \E productId \in {p.id : p \in Pool} : HandleSwapSelect(productId)
  \/ \E c \in pending : SwapArrive(c)

SpecSwap == InitSwap /\ [][NextSwap]_vars

\* C21: after a successful swap the budget summary of the design page (spent,
\* remaining, and the BudgetBar fed from them) reflects the price of the newly
\* chosen product: the amount spent is the sum of the prices of the products
\* in the render shown, and spent plus remaining is still the budget.
C21_BudgetSummaryFollowsSwap ==
  (view.mounted /\ view.designResult.render_url # NoRender) =>
    LET shown == view.designResult
    IN /\ shown.budget_spent = SumPrices(shown.render_url.shows, DOMAIN shown.render_url.shows)
       /\ shown.budget_spent + shown.budget_remaining
            = design.budget_spent + design.budget_remaining

\* C30: whenever the swap modal is open and not loading, the alternatives it
\* lists were fetched for the slot it shows, for every interleaving of opening
\* a slot, closing the modal, opening another slot and the arrival of the
\* alternatives responses.
C30_AlternativesMatchShownSlot ==
  (view.mounted /\ view.isSwapModalOpen /\ ~view.isSwapLoading) =>
    \A k \in 1..Len(view.alternatives) :
      ProductById(view.alternatives[k]).category = view.swapSlot

====
